---- MODULE Spec2Model ----
(***************************************************************************)
(* The Erwig-language teaching interpreter: parse.py (statement parser and *)
(* call extraction), command.py (the command set and the execution        *)
(* engine) and runtime.py (activation records and the runtime stack).     *)
(*                                                                         *)
(* A run is configured by `typing` (the truth value handed to             *)
(* RuntimeStack: the stack resolves statically exactly when it is FALSE)   *)
(* and `calltype` (the value handed to RuntimeStack and execute_program).  *)
(* main_type and main_calltype are the answers read_input returns: the     *)
(* convention and whether static typing was asked for.  Init hands them to *)
(* the core as they are; InitMain hands them over as main() does.  The     *)
(* program text is revealed one top-level statement at a time (Feed);      *)
(* each statement is parsed into commands, which are then applied one per  *)
(* step.  A Python exception ends the run: status = "crash", err = kind.   *)
(***************************************************************************)
EXTENDS Integers, Sequences, FiniteSets, TLC

VARIABLES main_type, main_calltype, typing, calltype, records, func_stack, ret,
          func_returns, raw_input, ctl, c, nuuid, status, err

vars == <<main_type, main_calltype, typing, calltype, records, func_stack, ret,
          func_returns, raw_input, ctl, c, nuuid, status, err>>

\* Longest program, in top-level statements.
MaxStmts == 6

CallTypeEnum == {"CBV", "CBR", "CBVR", "CBNEED", "CBNAME"}

(***************************************************************************)
(* Expressions.  An expression is the list of elements translate_vars      *)
(* splits it into: operands and operators.  Source operands are numeric    *)
(* literals ("num"), identifiers ("id"), calls ("call": name and argument  *)
(* texts) and quoted call-result tokens ("tok").  Translated operands are  *)
(* "num", "get" (stack.get_value('s')), "ret" (stack.func_ret("n")),       *)
(* "retcat" (stack.func_ret(...) around the text from the first to the     *)
(* last quote) and "pycall" (stack.get_value('s')(...), a call's text).    *)
(* "pynone" and "pyctor" are the texts str() gives for None and for a      *)
(* Function ("None", "Function()").                                        *)
(***************************************************************************)
El(t, n, s, args) == [t |-> t, n |-> n, s |-> s, args |-> args]
Num(n) == El("num", n, "", <<>>)
Id(s) == El("id", 0, s, <<>>)
Op(s) == El("op", 0, s, <<>>)
Tok(u) == El("tok", u, "", <<>>)
Call(f, args) == El("call", 0, f, args)

\* Python values: None, int, str (an expression text), Function.
Val(k, n, e, name, params, commands, rindex) ==
    [k |-> k, n |-> n, e |-> e, name |-> name, params |-> params,
     commands |-> commands, rindex |-> rindex]
None == Val("none", 0, <<>>, "", <<>>, <<>>, 0)
IntV(n) == Val("int", n, <<>>, "", <<>>, <<>>, 0)
StrV(e) == Val("str", 0, e, "", <<>>, <<>>, 0)
Function(name, commands, params, rindex) ==
    Val("func", 0, <<>>, name, params, commands, rindex)

\* str(v) of a value an expression evaluated to.
PyStr(v) ==
    CASE v.k = "int" -> StrV(<<Num(v.n)>>)
      [] v.k = "none" -> StrV(<<El("pynone", 0, "", <<>>)>>)
      [] v.k = "func" -> StrV(<<El("pyctor", 0, "", <<>>)>>)
      [] OTHER -> v

\* A result of an evaluation: the value, the records after it, the exception.
Res(v, recs, e) == [v |-> v, recs |-> recs, err |-> e]

\* Python's arithmetic on two values: ints only, anything else is a TypeError.
Arith(op, a, b) ==
    IF a.k = "int" /\ b.k = "int"
    THEN [v |-> IntV(CASE op = "+" -> a.n + b.n
                       [] op = "-" -> a.n - b.n
                       [] OTHER -> a.n * b.n), err |-> ""]
    ELSE [v |-> None, err |-> "TypeError"]

(***************************************************************************)
(* eval(text) inside runtime.py (obtain, assign, RuntimeStack.set_value):  *)
(* no name `stack` is in scope there, so a text that mentions              *)
(* stack.get_value or stack.func_ret raises NameError; "Function()" lacks  *)
(* its four arguments and raises TypeError.                                *)
(***************************************************************************)
RuntimeEval(e) ==
    IF \E i \in 1..Len(e) : e[i].t \in {"get", "ret", "retcat", "pycall"}
    THEN [v |-> None, err |-> "NameError"]
    ELSE IF \E i \in 1..Len(e) : e[i].t = "pyctor"
    THEN [v |-> None, err |-> "TypeError"]
    ELSE IF Len(e) = 1
    THEN [v |-> IF e[1].t = "num" THEN IntV(e[1].n) ELSE None, err |-> ""]
    ELSE Arith(e[2].s, IF e[1].t = "num" THEN IntV(e[1].n) ELSE None,
                       IF e[3].t = "num" THEN IntV(e[3].n) ELSE None)

(***************************************************************************)
(* ActivatationRecord: record is the insertion-ordered dict, as a list of  *)
(* entries.                                                                *)
(***************************************************************************)
ActivatationRecord(ct) == [record |-> <<>>, calltype |-> ct]

Keys(ar) == {ar.record[i].name : i \in 1..Len(ar.record)}
KeyIndex(ar, name) == CHOOSE i \in 1..Len(ar.record) : ar.record[i].name = name
Min(S) == CHOOSE i \in S : \A j \in S : i <= j
Max(S) == CHOOSE i \in S : \A j \in S : i >= j

\* dict store: an existing key keeps its position, a new key is appended.
DictSet(ar, name, v) ==
    IF name \in Keys(ar)
    THEN [ar EXCEPT !.record[KeyIndex(ar, name)].val = v]
    ELSE [ar EXCEPT !.record = Append(@, [name |-> name, val |-> v])]

ARes(v, ar, e) == [v |-> v, ar |-> ar, err |-> e]

\* self.record[name]
Stored(ar, name) == ar.record[KeyIndex(ar, name)].val

\* val = eval(val) if isinstance(val, str)
EvalIfStr(val) == IF val.k = "str" THEN RuntimeEval(val.e) ELSE [v |-> val, err |-> ""]

\* obtain(), given the evaluated binding: CBNEED stores the evaluated value.
ObtainWith(ar, name, ev) ==
    IF ev.err # "" THEN ARes(None, ar, ev.err)
    ELSE IF ar.calltype = "CBNEED" /\ ev.v # Stored(ar, name)
    THEN ARes(ev.v, DictSet(ar, name, ev.v), "")
    ELSE ARes(ev.v, ar, "")

Obtain(ar, name) == ObtainWith(ar, name, EvalIfStr(Stored(ar, name)))

\* The first key, in insertion order, that is fname or name ("" if neither).
FirstOf(ar, name, fname) ==
    LET hits == {i \in 1..Len(ar.record) : ar.record[i].name \in {fname, name}}
    IN  IF hits = {} THEN ""
        ELSE IF ar.record[Min(hits)].name = fname THEN fname ELSE name

\* Whether the scan of one record reaches name: with fname, keys are taken
\* in insertion order and the scan ends at fname; without, any key counts.
Reaches(ar, name, fname) ==
    IF fname # "" THEN FirstOf(ar, name, fname) = name /\ name # fname
    ELSE name \in Keys(ar)

\* ActivatationRecord.get_value(stack, name, fname); fname = "" for None.
ARGetValue(ar, name, fname) ==
    IF Reaches(ar, name, fname) THEN Obtain(ar, name) ELSE ARes(None, ar, "")

\* assign(), given the evaluated value.
AssignWith(ar, name, ev) ==
    IF ev.err # "" THEN [ok |-> FALSE, ar |-> ar, err |-> ev.err]
    ELSE [ok |-> TRUE, ar |-> DictSet(ar, name, ev.v), err |-> ""]

\* A plausible slip: a binding that holds deferred text is not written.
ARSetValueSkipsDeferred(ar, name, value, fname) ==
    IF Reaches(ar, name, fname) /\ Stored(ar, name).k # "str"
    THEN AssignWith(ar, name, EvalIfStr(value))
    ELSE [ok |-> FALSE, ar |-> ar, err |-> ""]

\* ActivatationRecord.set_value(stack, name, value, fname): ok = written.
ARSetValue(ar, name, value, fname) ==
    IF Reaches(ar, name, fname) THEN AssignWith(ar, name, EvalIfStr(value))
    ELSE [ok |-> FALSE, ar |-> ar, err |-> ""]

(***************************************************************************)
(* RuntimeStack.  func_stack entries are (rindex, sindex, fname); indices  *)
(* are Python's (0-based), so frame i is records[i + 1].  `wrapped` marks  *)
(* the entry value_result pushes back, whose rindex is the popped tuple.   *)
(***************************************************************************)
FuncEntry(rindex, sindex, fname, wrapped) ==
    [rindex |-> rindex, sindex |-> sindex, fname |-> fname, wrapped |-> wrapped]

\* range(a, b - 1, -1): a, a - 1, .., b.
Down(a, b) == [k \in 1..(IF a >= b THEN a - b + 1 ELSE 0) |-> a - k + 1]

\* A plausible slip: the static discipline applied whatever the typing.
StaticInFuncAnyTyping(fs) == fs # <<>>

\* in_func() and not typing: the static discipline applies.
StaticInFunc(fs) == fs # <<>> /\ ~typing

Probe(i, fname, terr) == [i |-> i, fname |-> fname, terr |-> terr]

\* A plausible slip: every live frame searched, newest first, in both modes.
SearchOrderAllFrames(R, fs) ==
    [k \in 1..Len(R) |-> Probe(Len(R) - k, "", FALSE)]

\* The frames get_value and set_value visit, in order, with the fname passed.
SearchOrder(R, fs) ==
    IF StaticInFunc(fs)
    THEN LET top == fs[Len(fs)]
             p1 == Down(Len(R) - 1, top.sindex)
             p2 == IF top.wrapped THEN <<>> ELSE Down(top.rindex, 0)
         IN  [k \in 1..Len(p1) |-> Probe(p1[k], "", FALSE)]
             \o (IF top.wrapped THEN <<Probe(0, top.fname, TRUE)>>
                 ELSE [k \in 1..Len(p2) |-> Probe(p2[k], top.fname, FALSE)])
    ELSE [k \in 1..Len(R) |-> Probe(Len(R) - k, "", FALSE)]

RECURSIVE ScanGet(_, _, _, _)
\* One frame of get_value's loop, given that frame's answer r.
ScanGetStep(R, order, k, name, r) ==
    IF r.err # "" THEN Res(None, R, r.err)
    ELSE IF r.v # None THEN Res(r.v, [R EXCEPT ![order[k].i + 1] = r.ar], "")
    ELSE ScanGet(R, order, k + 1, name)

ScanGet(R, order, k, name) ==
    IF k > Len(order) THEN Res(None, R, "")
    ELSE IF order[k].terr THEN Res(None, R, "TypeError")
    ELSE IF order[k].i >= Len(R) THEN Res(None, R, "IndexError")
    ELSE ScanGetStep(R, order, k, name,
                     ARGetValue(R[order[k].i + 1], name, order[k].fname))

\* RuntimeStack.get_value(name).
RSGetValue(R, fs, name) == ScanGet(R, SearchOrder(R, fs), 1, name)

SRes(ok, recs, e) == [ok |-> ok, recs |-> recs, err |-> e]

\* The value RuntimeStack.set_value hands to a record: eval(value) under the
\* static discipline (a TypeError unless value is a str), value otherwise.
Handed(value, static) ==
    IF ~static THEN [v |-> value, err |-> ""]
    ELSE IF value.k = "str" THEN RuntimeEval(value.e)
    ELSE [v |-> None, err |-> "TypeError"]

RECURSIVE ScanSet(_, _, _, _, _, _)
\* One frame of set_value's loop, given that frame's answer r.
ScanSetStep(R, order, k, name, value, static, r) ==
    IF r.err # "" THEN SRes(FALSE, R, r.err)
    ELSE IF r.ok THEN SRes(TRUE, [R EXCEPT ![order[k].i + 1] = r.ar], "")
    ELSE ScanSet(R, order, k + 1, name, value, static)

ScanSetHanded(R, order, k, name, value, static, ev) ==
    IF ev.err # "" THEN SRes(FALSE, R, ev.err)
    ELSE ScanSetStep(R, order, k, name, value, static,
                     ARSetValue(R[order[k].i + 1], name, ev.v, order[k].fname))

ScanSet(R, order, k, name, value, static) ==
    IF k > Len(order) THEN SRes(FALSE, R, "")
    ELSE IF order[k].terr THEN SRes(FALSE, R, "TypeError")
    ELSE IF order[k].i >= Len(R) THEN SRes(FALSE, R, "IndexError")
    ELSE ScanSetHanded(R, order, k, name, value, static, Handed(value, static))

\* A plausible slip: a target no frame holds is declared in the top frame.
RSSetValueOrDeclare(R, fs, name, value) ==
    IF R = <<>> \/ ScanSet(R, SearchOrder(R, fs), 1, name, value, StaticInFunc(fs)).ok
                \/ ScanSet(R, SearchOrder(R, fs), 1, name, value, StaticInFunc(fs)).err # ""
    THEN ScanSet(R, SearchOrder(R, fs), 1, name, value, StaticInFunc(fs))
    ELSE SRes(TRUE, [R EXCEPT ![Len(R)] = DictSet(@, name, value)], "")

\* RuntimeStack.set_value(name, value).
RSSetValue(R, fs, name, value) ==
    ScanSet(R, SearchOrder(R, fs), 1, name, value, StaticInFunc(fs))

\* RuntimeStack.declare_value(name): records[-1].record[name] = None.
DeclareValue(R, name) ==
    IF R = <<>> THEN SRes(FALSE, R, "IndexError")
    ELSE SRes(TRUE, [R EXCEPT ![Len(R)] = DictSet(@, name, None)], "")

(***************************************************************************)
(* command.py: translate_vars and eval of the translated text where the    *)
(* name `stack` is a parameter in scope.                                   *)
(***************************************************************************)
RECURSIVE translate_vars(_)
TranslateEl(el) ==
    CASE el.t = "id" -> El("get", 0, el.s, <<>>)
      [] el.t = "tok" -> El("ret", el.n, "", <<>>)
      [] el.t = "call" ->
           El("pycall", 0, el.s, [k \in 1..Len(el.args) |-> translate_vars(el.args[k])])
      [] OTHER -> el

\* The quoted tokens at the top level of an expression.
Quoted(expr) == {i \in 1..Len(expr) : expr[i].t = "tok"}

\* translate_vars(expr).  The split pattern (".+") is greedy: with two or
\* more quoted tokens the text from the first quote to the last becomes one
\* element, the argument of a single stack.func_ret(...).
translate_vars(expr) ==
    IF Cardinality(Quoted(expr)) >= 2
    THEN [i \in 1..(Min(Quoted(expr)) - 1) |-> TranslateEl(expr[i])]
         \o <<El("retcat", 0, "", SubSeq(expr, Min(Quoted(expr)), Max(Quoted(expr))))>>
         \o [i \in 1..(Len(expr) - Max(Quoted(expr))) |->
                TranslateEl(expr[Max(Quoted(expr)) + i])]
    ELSE [i \in 1..Len(expr) |-> TranslateEl(expr[i])]

\* An expression Python can compile: an operand, or operand operator operand.
WellFormed(e) ==
    /\ Len(e) \in {1, 3}
    /\ e[1].t # "op"
    /\ Len(e) = 3 => (e[2].t = "op" /\ e[3].t # "op")

\* The key "a" + "b" of quoted tokens joined by +, never a stored token;
\* any other text between the quotes is not a sum of strings.
CatKey(inner) ==
    IF \A i \in 1..Len(inner) :
          IF i % 2 = 1 THEN inner[i].t = "tok" ELSE inner[i] = Op("+")
    THEN "KeyError" ELSE "TypeError"

RECURSIVE PyEval(_, _, _, _), CallArgsFrom(_, _, _, _, _)
CallArgsNext(args, k, fs, fr, ev) ==
    IF ev.err # "" THEN ev ELSE CallArgsFrom(args, k + 1, ev.recs, fs, fr)

\* The arguments of a call in the text, left to right; the callee is a
\* Function object, None or a number, and calling it raises TypeError.
CallArgsFrom(args, k, R, fs, fr) ==
    IF k > Len(args) THEN Res(None, R, "TypeError")
    ELSE CallArgsNext(args, k, fs, fr, PyEval(args[k], R, fs, fr))

OperandCall(el, fs, fr, g) ==
    IF g.err # "" THEN g ELSE CallArgsFrom(el.args, 1, g.recs, fs, fr)

Operand(el, R, fs, fr) ==
    CASE el.t = "num" -> Res(IntV(el.n), R, "")
      [] el.t = "get" -> RSGetValue(R, fs, el.s)
      [] el.t = "ret" -> IF el.n \in DOMAIN fr THEN Res(fr[el.n], R, "")
                         ELSE Res(None, R, "KeyError")
      [] el.t = "retcat" -> Res(None, R, CatKey(el.args))
      [] el.t = "pycall" -> OperandCall(el, fs, fr, RSGetValue(R, fs, el.s))
      [] OTHER -> Res(None, R, "SyntaxError")

PyEvalOp(b, x) == Res(x.v, b.recs, x.err)
PyEvalRight(e, a, b) == IF b.err # "" THEN b ELSE PyEvalOp(b, Arith(e[2].s, a.v, b.v))
PyEvalLeft(e, fs, fr, a) ==
    IF Len(e) = 1 \/ a.err # "" THEN a
    ELSE PyEvalRight(e, a, Operand(e[3], a.recs, fs, fr))

\* eval(text) with `stack` bound: operands left to right, then the operator.
PyEval(e, R, fs, fr) ==
    IF ~WellFormed(e) THEN Res(None, R, "SyntaxError")
    ELSE PyEvalLeft(e, fs, fr, Operand(e[1], R, fs, fr))

(***************************************************************************)
(* Commands (command.py: Command, CommandTypeEnum) and source lines.  A    *)
(* line is what one of parse_input's patterns matches: "{", "}", a         *)
(* function header, return, an if header, "else {", a declaration with or  *)
(* without initialiser, an assignment.                                     *)
(***************************************************************************)
Command(type, name, value, params, uuid, func, commands, left, cond, right, ifc, elsec) ==
    [type |-> type, name |-> name, value |-> value, params |-> params,
     uuid |-> uuid, func |-> func, commands |-> commands,
     left |-> left, cond |-> cond, right |-> right, ifc |-> ifc, elsec |-> elsec]

Cmd(type) == Command(type, "", <<>>, <<>>, 0, FALSE, <<>>, <<>>, "", <<>>, <<>>, <<>>)
SCOPE_NEW == Cmd("SCOPE_NEW")
SCOPE_DEL(func) == [Cmd("SCOPE_DEL") EXCEPT !.func = func]
DECLARE_VAR(name) == [Cmd("DECLARE_VAR") EXCEPT !.name = name]
ASSIGN_VAR(name, value) == [Cmd("ASSIGN_VAR") EXCEPT !.name = name, !.value = value]
FUNC_CALL(name, params) == [Cmd("FUNC_CALL") EXCEPT !.name = name, !.params = params]
STORE_FUNC_RET(uuid) == [Cmd("STORE_FUNC_RET") EXCEPT !.uuid = uuid]
VALUE_RESULT(name, params) == [Cmd("VALUE_RESULT") EXCEPT !.name = name, !.params = params]
RETURN(value) == [Cmd("RETURN") EXCEPT !.value = value]
DECLARE_FUNC(name, commands, params) ==
    [Cmd("DECLARE_FUNC") EXCEPT !.name = name, !.commands = commands, !.params = params]
CONDITIONAL(left, cond, right, ifc, elsec) ==
    [Cmd("CONDITIONAL") EXCEPT !.left = left, !.cond = cond, !.right = right,
                               !.ifc = ifc, !.elsec = elsec]

Line(s, name, params, expr, left, cond, right) ==
    [s |-> s, name |-> name, params |-> params, expr |-> expr,
     left |-> left, cond |-> cond, right |-> right]
LOpen == Line("{", "", <<>>, <<>>, <<>>, <<>>, <<>>)
LClose == Line("}", "", <<>>, <<>>, <<>>, <<>>, <<>>)
LElse == Line("else", "", <<>>, <<>>, <<>>, <<>>, <<>>)
LFunc(name, params) == Line("func", name, params, <<>>, <<>>, <<>>, <<>>)
LReturn(expr) == Line("return", "", <<>>, expr, <<>>, <<>>, <<>>)
LIf(left, cond, right) == Line("if", "", <<>>, <<>>, left, cond, right)
LDeclInit(name, expr) == Line("declinit", name, <<>>, expr, <<>>, <<>>, <<>>)
LDecl(name) == Line("decl", name, <<>>, <<>>, <<>>, <<>>, <<>>)
LAssign(name, expr) == Line("assign", name, <<>>, expr, <<>>, <<>>, <<>>)
\* A call written as a statement of its own: no pattern of parse_input fits.
LCall(name, params) == Line("call", name, params, <<>>, <<>>, <<>>, <<>>)

(***************************************************************************)
(* parse.py.  Call-result tokens (uuid4) are numbered from a counter.      *)
(***************************************************************************)
\* The extent of a text, in elements: a call is its name with the opening
\* parenthesis, its arguments, each with its separator, and the closing one.
RECURSIVE Width(_), ArgsWidth(_)
ElWidth(el) == IF el.t = "call" THEN 2 + ArgsWidth(el.args) ELSE 1
Width(expr) == IF expr = <<>> THEN 0 ELSE ElWidth(expr[1]) + Width(Tail(expr))
ArgsWidth(args) == IF args = <<>> THEN 0 ELSE Width(args[1]) + 1 + ArgsWidth(Tail(args))

\* The scan of collect_func_calls: every call of the text from offset `at`
\* on, nested ones included, with the offsets n and m where it starts and
\* ends, in the order the scan meets them.
RECURSIVE ScanExpr(_, _), ScanArgs(_, _)
ScanEl(el, at) ==
    IF el.t = "call"
    THEN <<[scall |-> el, uuid |-> 0, n |-> at, m |-> at + ElWidth(el)]>>
         \o ScanArgs(el.args, at + 1)
    ELSE <<>>
ScanExpr(expr, at) ==
    IF expr = <<>> THEN <<>>
    ELSE ScanEl(expr[1], at) \o ScanExpr(Tail(expr), at + ElWidth(expr[1]))
ScanArgs(args, at) ==
    IF args = <<>> THEN <<>>
    ELSE ScanExpr(args[1], at) \o ScanArgs(Tail(args), at + Width(args[1]) + 1)

\* uuid4() for each call in scan order: the tokens after u.
Numbered(calls, u) == [k \in 1..Len(calls) |-> [calls[k] EXCEPT !.uuid = u + k]]

\* A plausible slip: the calls left in scan order, by where they start.
SortByStart(calls) == calls

\* func_calls.sort(key=lambda call: call[3])
SortByEnd(calls) ==
    [k \in 1..Len(calls) |->
        CHOOSE x \in {calls[i] : i \in 1..Len(calls)} :
            Cardinality({i \in 1..Len(calls) : calls[i].m < x.m}) = k - 1]

\* overlap(index)
Overlap(func_calls, index) ==
    \E i \in 1..Len(func_calls) : index < func_calls[i].m /\ index > func_calls[i].n

\* get_overlaps(n, m)
GetOverlaps(func_calls, n, m) == SelectSeq(func_calls, LAMBDA call : call.m < m /\ call.m > n)

\* str.replace(old, new, 1) on a text and on the arguments of a call: the
\* first occurrence of the call text `old` becomes the quoted token.
RECURSIVE ReplaceInExpr(_, _, _), ReplaceInArgs(_, _, _)
ReplaceJoin(el, r) == [e |-> <<el>> \o r.e, done |-> r.done]
ReplaceJoinCall(expr, old, new, ra) ==
    IF ra.done THEN [e |-> <<[expr[1] EXCEPT !.args = ra.e]>> \o Tail(expr), done |-> TRUE]
    ELSE ReplaceJoin(expr[1], ReplaceInExpr(Tail(expr), old, new))
ReplaceInExpr(expr, old, new) ==
    IF expr = <<>> THEN [e |-> <<>>, done |-> FALSE]
    ELSE IF expr[1] = old THEN [e |-> <<new>> \o Tail(expr), done |-> TRUE]
    ELSE IF expr[1].t = "call"
    THEN ReplaceJoinCall(expr, old, new, ReplaceInArgs(expr[1].args, old, new))
    ELSE ReplaceJoin(expr[1], ReplaceInExpr(Tail(expr), old, new))
ReplaceJoinArg(args, old, new, r) ==
    IF r.done THEN [e |-> <<r.e>> \o Tail(args), done |-> TRUE]
    ELSE ReplaceJoin(args[1], ReplaceInArgs(Tail(args), old, new))
ReplaceInArgs(args, old, new) ==
    IF args = <<>> THEN [e |-> <<>>, done |-> FALSE]
    ELSE ReplaceJoinArg(args, old, new, ReplaceInExpr(args[1], old, new))

\* The inner loop: each overlapping call's text replaced in scall, in turn.
RECURSIVE RewriteCall(_, _)
RewriteCall(scall, overlaps) ==
    IF overlaps = <<>> THEN scall
    ELSE RewriteCall(
             [scall EXCEPT !.args = ReplaceInArgs(@, overlaps[1].scall,
                                                  Tok(overlaps[1].uuid)).e],
             Tail(overlaps))

\* The outer loop from call i on: a call that lies in no other call is
\* replaced in value by its token and has its own text rewritten.
RECURSIVE CollectFrom(_, _, _)
CollectJoin(fc, rest) == [value |-> rest.value, func_calls |-> <<fc>> \o rest.func_calls]
CollectFrom(func_calls, i, value) ==
    IF i > Len(func_calls) THEN [value |-> value, func_calls |-> <<>>]
    ELSE IF Overlap(func_calls, func_calls[i].m)
    THEN CollectJoin(func_calls[i], CollectFrom(func_calls, i + 1, value))
    ELSE CollectJoin(
             [func_calls[i] EXCEPT !.scall =
                 RewriteCall(@, GetOverlaps(func_calls, func_calls[i].n, func_calls[i].m))],
             CollectFrom(func_calls, i + 1,
                 ReplaceInExpr(value, func_calls[i].scall, Tok(func_calls[i].uuid)).e))

Collected(r, u) == [value |-> r.value, func_calls |-> r.func_calls, u |-> u]

\* collect_func_calls(value): the expression with its outermost calls
\* replaced by tokens, and the calls in order of their end offset.
collect_func_calls(value, u) ==
    Collected(CollectFrom(SortByEnd(Numbered(ScanExpr(value, 0), u)), 1, value),
              u + Len(ScanExpr(value, 0)))

\* gen_func_call_commands: four commands per call of the plan.
RECURSIVE gen_func_call_commands(_)
gen_func_call_commands(func_calls) ==
    IF func_calls = <<>> THEN <<>>
    ELSE LET fc == func_calls[1]
         IN  << FUNC_CALL(fc.scall.s, fc.scall.args),
                STORE_FUNC_RET(fc.uuid),
                VALUE_RESULT(fc.scall.s, fc.scall.args),
                SCOPE_DEL(TRUE) >> \o gen_func_call_commands(Tail(func_calls))

\* obtain_scoped_lines(i, input): the lines after line i up to and including
\* the one that closes the scope; i is the index of that closing line.
RECURSIVE ScopedFrom(_, _, _, _)
ScopedFrom(i, input, scope_count, lines) ==
    IF scope_count <= 0 THEN [i |-> i, lines |-> lines, err |-> ""]
    ELSE IF i + 1 > Len(input) THEN [i |-> i, lines |-> lines, err |-> "IndexError"]
    ELSE LET l == input[i + 1]
             n == IF l.s \in {"{", "func", "if", "else"} THEN scope_count + 1
                  ELSE IF l.s = "}" THEN scope_count - 1 ELSE scope_count
         IN  ScopedFrom(i + 1, input, n, Append(lines, l))

obtain_scoped_lines(i, input) == ScopedFrom(i, input, 1, <<>>)

PRes(commands, u, e) == [commands |-> commands, u |-> u, err |-> e]

RECURSIVE ParseFrom(_, _, _, _)

\* A function header: the body is parsed without its closing line.
ParseFuncBody(input, commands, line, sc, body) ==
    IF body.err # "" THEN PRes(commands, body.u, body.err)
    ELSE ParseFrom(input, sc.i + 1,
             Append(commands, DECLARE_FUNC(line.name, body.commands, line.params)), body.u)

ParseFunc(input, commands, u, line, sc) ==
    IF line.params = <<>> THEN PRes(commands, u, "IndexError")
    ELSE IF sc.err # "" THEN PRes(commands, u, sc.err)
    ELSE ParseFuncBody(input, commands, line, sc,
             ParseFrom(SubSeq(sc.lines, 1, Len(sc.lines) - 1), 1, <<>>, u))

\* An if header: the lines of both bodies keep their closing line.
\* The characters of r_expr that a spelling of a comparison can hold.
ExprChars == {"=", "/"}

\* The alternatives of r_cond.
r_cond == {<<"=">>, <<">">>, <<"<">>, <<">", "=">>, <<"<", "=">>, <<"!", "=">>}

\* re.match of the if pattern on `if L sp R {`: some part of sp is taken by
\* r_cond and what is left of it and right of it by the r_expr+ around it.
IfMatches(sp) ==
    \E i \in 1..Len(sp), j \in 1..Len(sp) :
        /\ i <= j /\ SubSeq(sp, i, j) \in r_cond
        /\ \A k \in (1..Len(sp)) \ (i..j) : sp[k] \in ExprChars

\* What r_cond matches at position i, scanning left to right: the first
\* alternative that fits, so = > < before >= <=, and != at a ! ("" if none).
AtomAt(sp, i) ==
    IF sp[i] \in {"=", ">", "<"} THEN sp[i]
    ELSE IF sp[i] = "!" /\ i < Len(sp) /\ sp[i + 1] = "=" THEN "!="
    ELSE ""

\* re.split / re.findall with r_cond over a spelling from position i on: the
\* matches in order, and between them the characters of no match.
RECURSIVE CondSplit(_, _)
CondSplit(sp, i) ==
    IF i > Len(sp) THEN <<>>
    ELSE IF AtomAt(sp, i) = "" THEN <<[atom |-> FALSE, s |-> sp[i]]>> \o CondSplit(sp, i + 1)
    ELSE <<[atom |-> TRUE, s |-> AtomAt(sp, i)]>>
         \o CondSplit(sp, i + (IF AtomAt(sp, i) = "!=" THEN 2 ELSE 1))

CondAtoms(items) == {k \in 1..Len(items) : items[k].atom}

\* left, right and condition of an if line split at its one match k.
SplitAt(line, items, k) ==
    [line EXCEPT
        !.left = @ \o [n \in 1..(k - 1) |-> Op(items[n].s)],
        !.cond = items[k].s,
        !.right = [n \in 1..(Len(items) - k) |-> Op(items[k + n].s)] \o @]

ParseIfElse(input, commands, line, se, ifp, elp) ==
    IF elp.err # "" THEN PRes(commands, elp.u, elp.err)
    ELSE ParseFrom(input, se.i + 1,
             Append(commands, CONDITIONAL(line.left, line.cond, line.right,
                                          ifp.commands, elp.commands)), elp.u)

ParseIfThen(input, commands, line, se, ifp) ==
    IF ifp.err # "" THEN PRes(commands, ifp.u, ifp.err)
    ELSE ParseIfElse(input, commands, line, se, ifp, ParseFrom(se.lines, 1, <<>>, ifp.u))

ParseIfBodies(input, commands, u, line, sc, se) ==
    IF se.err # "" THEN PRes(commands, u, se.err)
    ELSE ParseIfThen(input, commands, line, se, ParseFrom(sc.lines, 1, <<>>, u))

ParseIf(input, commands, u, line, sc) ==
    IF sc.err # "" THEN PRes(commands, u, sc.err)
    ELSE IF sc.i + 1 > Len(input) THEN PRes(commands, u, "IndexError")
    ELSE ParseIfBodies(input, commands, u, line, sc,
             IF input[sc.i + 1].s = "else" THEN obtain_scoped_lines(sc.i + 1, input)
             ELSE [i |-> sc.i, lines |-> <<>>, err |-> ""])

\* left, right = ...split(...): ValueError unless the split gives two parts.
ParseIfSplit(input, i, commands, u, line, items) ==
    IF Cardinality(CondAtoms(items)) # 1 THEN PRes(commands, u, "ValueError")
    ELSE ParseIf(input, commands, u, SplitAt(line, items, Min(CondAtoms(items))),
                 obtain_scoped_lines(i, input))

\* A line with an expression: the call plan's commands, then the line's own.
ParseExpr(input, i, commands, line, cf) ==
    ParseFrom(input, i + 1,
        (commands \o gen_func_call_commands(cf.func_calls))
            \o (CASE line.s = "return" -> <<RETURN(cf.value)>>
                  [] line.s = "declinit" ->
                       <<DECLARE_VAR(line.name), ASSIGN_VAR(line.name, cf.value)>>
                  [] OTHER -> <<ASSIGN_VAR(line.name, cf.value)>>),
        cf.u)

ParseLine(input, i, commands, u, line) ==
    CASE line.s = "{" -> ParseFrom(input, i + 1, Append(commands, SCOPE_NEW), u)
      [] line.s = "}" -> ParseFrom(input, i + 1, Append(commands, SCOPE_DEL(FALSE)), u)
      [] line.s = "func" -> ParseFunc(input, commands, u, line, obtain_scoped_lines(i, input))
      [] line.s = "if" ->
           IF IfMatches(line.cond)
           THEN ParseIfSplit(input, i, commands, u, line, CondSplit(line.cond, 1))
           ELSE ParseFrom(input, i + 1, Append(commands, DECLARE_VAR(line.left[1].s)), u)
      [] line.s \in {"return", "declinit", "assign"} ->
           ParseExpr(input, i, commands, line, collect_func_calls(line.expr, u))
      [] line.s = "decl" -> ParseFrom(input, i + 1, Append(commands, DECLARE_VAR(line.name)), u)
      [] OTHER -> ParseFrom(input, i + 1, commands, u)

\* parse_input's loop from line i on, with the commands produced so far.
ParseFrom(input, i, commands, u) ==
    IF i > Len(input) THEN PRes(commands, u, "") ELSE ParseLine(input, i, commands, u, input[i])

\* parse_input(input, type, calltype): the commands of the lines.
parse_input(lines, u) == ParseFrom(lines, 1, <<>>, u)

(***************************************************************************)
(* Program texts.  A statement is the run of lines one top-level statement *)
(* occupies after main.py's read_input has split braces onto own lines.    *)
(* A program is a sequence of at most MaxStmts statements drawn from one   *)
(* of the families below, no statement but a brace occurring twice.        *)
(***************************************************************************)
StOpen == <<LOpen>>
StClose == <<LClose>>
\* int x = 1 / int x = 3 / int y = 4 / int z = x + y / int a = 1
StX1 == <<LDeclInit("x", <<Num(1)>>)>>
StX3 == <<LDeclInit("x", <<Num(3)>>)>>
StY4 == <<LDeclInit("y", <<Num(4)>>)>>
StZ == <<LDeclInit("z", <<Id("x"), Op("+"), Id("y")>>)>>
StA1 == <<LDeclInit("a", <<Num(1)>>)>>
\* int f(int u) { return x }      int r = f(0)
FunF == <<LFunc("f", <<"u">>), LReturn(<<Id("x")>>), LClose>>
CallF == <<LDeclInit("r", <<Call("f", <<<<Num(0)>>>>)>>)>>
\* int g(int p) { int r = p(0); return r }      int q = g(f)
FunG == <<LFunc("g", <<"p">>), LDeclInit("r", <<Call("p", <<<<Num(0)>>>>)>>),
          LReturn(<<Id("r")>>), LClose>>
CallG == <<LDeclInit("q", <<Call("g", <<<<Id("f")>>>>)>>)>>
\* int inc(int n) { n = n + 1 }   int r = inc(a)   int r = inc(1)   inc(a)
FunInc == <<LFunc("inc", <<"n">>), LAssign("n", <<Id("n"), Op("+"), Num(1)>>), LClose>>
CallIncA == <<LDeclInit("r", <<Call("inc", <<<<Id("a")>>>>)>>)>>
CallInc1 == <<LDeclInit("r", <<Call("inc", <<<<Num(1)>>>>)>>)>>
BareIncA == <<LCall("inc", <<<<Id("a")>>>>)>>
\* int dbl(int n) { return n * 2 }      int r = dbl(5)      int r = dbl(a)
FunDbl == <<LFunc("dbl", <<"n">>), LReturn(<<Id("n"), Op("*"), Num(2)>>), LClose>>
CallDbl5 == <<LDeclInit("r", <<Call("dbl", <<<<Num(5)>>>>)>>)>>
CallDblA == <<LDeclInit("r", <<Call("dbl", <<<<Id("a")>>>>)>>)>>
\* int h(int n) { int u = n; a = a + 1; int w = n; return u + w }
FunH == <<LFunc("h", <<"n">>), LDeclInit("u", <<Id("n")>>),
          LAssign("a", <<Id("a"), Op("+"), Num(1)>>), LDeclInit("w", <<Id("n")>>),
          LReturn(<<Id("u"), Op("+"), Id("w")>>), LClose>>
CallH5 == <<LDeclInit("r", <<Call("h", <<<<Num(5)>>>>)>>)>>
CallHA == <<LDeclInit("r", <<Call("h", <<<<Id("a")>>>>)>>)>>
\* if x = 3 { x = 1 } else { x = 2 }      if x = 3 { int y = 4 }; int a = 1
IfElse == <<LIf(<<Id("x")>>, <<"=">>, <<Num(3)>>), LAssign("x", <<Num(1)>>), LClose,
            LElse, LAssign("x", <<Num(2)>>), LClose>>
IfOnly == <<LIf(<<Id("x")>>, <<"=">>, <<Num(3)>>), LDeclInit("y", <<Num(4)>>), LClose,
            LDeclInit("a", <<Num(1)>>)>>
\* int r = f(f(0))      int r = f(f(f(0)))      int r = f(0) + f(1)
CallFF == <<LDeclInit("r", <<Call("f", <<<<Call("f", <<<<Num(0)>>>>)>>>>)>>)>>
CallFFF == <<LDeclInit("r",
               <<Call("f", <<<<Call("f", <<<<Call("f", <<<<Num(0)>>>>)>>>>)>>>>)>>)>>
CallSum == <<LDeclInit("r", <<Call("f", <<<<Num(0)>>>>), Op("+"),
                              Call("f", <<<<Num(1)>>>>)>>)>>
\* int q = g(f(0))
CallGF0 == <<LDeclInit("q", <<Call("g", <<<<Call("f", <<<<Num(0)>>>>)>>>>)>>)>>
\* int k(int n) { if x = 3 { int y = 4 }; return n }      int r = k(1)
FunK == <<LFunc("k", <<"n">>), LIf(<<Id("x")>>, <<"=">>, <<Num(3)>>),
          LDeclInit("y", <<Num(4)>>), LClose, LReturn(<<Id("n")>>), LClose>>
CallK1 == <<LDeclInit("r", <<Call("k", <<<<Num(1)>>>>)>>)>>
\* int x      int y = x      x = 5
StDeclX == <<LDecl("x")>>
StYX == <<LDeclInit("y", <<Id("x")>>)>>
StSetX5 == <<LAssign("x", <<Num(5)>>)>>
\* int x = 2 / int x = 4
StX2 == <<LDeclInit("x", <<Num(2)>>)>>
StX4 == <<LDeclInit("x", <<Num(4)>>)>>
\* if x sp 3 { int t = 1 } else { int t = 2 }, for a spelling sp of the comparison
IfSp(sp) == <<LIf(<<Id("x")>>, sp, <<Num(3)>>), LDeclInit("t", <<Num(1)>>), LClose,
              LElse, LDeclInit("t", <<Num(2)>>), LClose>>
\* int set(int n) { n = 5 }      int r = set(a)
FunSet == <<LFunc("set", <<"n">>), LAssign("n", <<Num(5)>>), LClose>>
CallSetA == <<LDeclInit("r", <<Call("set", <<<<Id("a")>>>>)>>)>>
\* int two(int n) { return 1; a = 5; return 2 }      int r = two(0)
FunTwo == <<LFunc("two", <<"n">>), LReturn(<<Num(1)>>), LAssign("a", <<Num(5)>>),
            LReturn(<<Num(2)>>), LClose>>
CallTwo == <<LDeclInit("r", <<Call("two", <<<<Num(0)>>>>)>>)>>
\* return 7
StRet7 == <<LReturn(<<Num(7)>>)>>
\* int n = 1      int r = dbl(n)
StN1 == <<LDeclInit("n", <<Num(1)>>)>>
CallDblN == <<LDeclInit("r", <<Call("dbl", <<<<Id("n")>>>>)>>)>>
\* The keys of cond_lookup, character by character.
Spellings == {<<"=">>, <<"=", "=">>, <<"!", "=">>, <<"\\", "=">>, <<"/", "=">>, <<"<">>,
              <<">">>, <<"<", "=">>, <<"=", "<">>, <<">", "=">>, <<"=", ">">>}

Braces == {StOpen, StClose}
ScopeFamily == {StOpen, StClose, StX1, FunF, StX3, CallF}
AliasFamily == {StOpen, FunF, StX3, FunG, CallG, CallF}
IncFamily == {StOpen, StClose, StA1, FunInc, CallIncA, CallInc1, BareIncA}
DblFamily == {StOpen, StA1, FunDbl, CallDbl5, CallDblA}
NeedFamily == {StOpen, StA1, FunH, CallH5, CallHA}
BasicFamily == {StOpen, StClose, StX3, StY4, StZ}
IfFamily == {StOpen, StX3, IfElse, IfOnly}
NestFamily == {StOpen, StX3, FunF, CallFF, CallFFF}
SiblingFamily == {StOpen, StX3, FunF, CallSum}
TraceFamily == {StOpen, StX3, FunF, FunG, CallGF0}
CondFuncFamily == {StOpen, StX1, StX3, FunK, CallK1}
UnsetFamily == {StOpen, StX1, StDeclX, StYX, StSetX5}
ParamFamily == {StOpen, StA1, FunSet, CallSetA}
TwoFamily == {StOpen, StA1, FunTwo, CallTwo}
PendingFamily == {StOpen, StRet7, FunSet, CallSetA}
SelfFamily == {StOpen, StN1, FunDbl, CallDblN}
CondFamily(sp, stx) == {StOpen, stx, IfSp(sp)}
Families == {ScopeFamily, AliasFamily, IncFamily, DblFamily, NeedFamily, BasicFamily,
             IfFamily, NestFamily, SiblingFamily, TraceFamily, CondFuncFamily,
             UnsetFamily, ParamFamily, TwoFamily, PendingFamily, SelfFamily}
            \cup {CondFamily(sp, stx) : sp \in Spellings, stx \in {StX2, StX3, StX4}}
Statements == UNION Families

\* The families a statement belongs to.
FamiliesOf == [st \in Statements |-> {F \in Families : st \in F}]

InputOK(inp) ==
    /\ Len(inp) <= MaxStmts
    /\ \A i \in 1..(Len(inp) - 1) : inp[i] = inp[Len(inp)] => inp[i] \in Braces
    /\ \E F \in FamiliesOf[inp[Len(inp)]] : \A i \in 1..(Len(inp) - 1) : inp[i] \in F

(***************************************************************************)
(* The execution engine (command.py: execute_program, Command.apply).      *)
(* ctl is the stack of execute_program activations, each the commands it   *)
(* has still to apply; c is the command applied last.                      *)
(***************************************************************************)
RECURSIVE Norm(_)
\* execute_program returns when its commands are exhausted.
Norm(k) == IF k # <<>> /\ k[Len(k)] = <<>> THEN Norm(SubSeq(k, 1, Len(k) - 1)) ELSE k

Cur == ctl[Len(ctl)][1]
Popped == [ctl EXCEPT ![Len(ctl)] = Tail(@)]
Running(type) == status = "run" /\ ctl # <<>> /\ Cur.type = type

\* ActivatationRecord.__str__: the bindings, newest first, with ? for None,
\* {} for a Function and str(e) for any other value.
Shown(e) ==
    IF e = None THEN None
    ELSE IF e.k = "func" THEN Function("", <<>>, <<>>, 0)
    ELSE e
RecordStr(ar) ==
    [k \in 1..Len(ar.record) |->
        [name |-> ar.record[Len(ar.record) + 1 - k].name,
         val |-> Shown(ar.record[Len(ar.record) + 1 - k].val)]]

\* Python's truth of a value.
Truthy(v) == v.k # "none" /\ (v.k = "int" => v.n # 0) /\ (v.k = "str" => v.e # <<>>)

\* RuntimeStack.__str__: Ret in a call with a true ret, the frames newest first.
StackStr(R, fs, rt) ==
    [ret |-> IF fs # <<>> /\ Truthy(rt) THEN rt ELSE None,
     records |-> [k \in 1..Len(R) |-> RecordStr(R[Len(R) + 1 - k])]]

\* The line execute_program prints before a FUNC_CALL or a CONDITIONAL: the
\* indentation, the name or the condition, and the stack.
BeforeLine(cmd, R, fs, rt) ==
    [depth |-> Len(fs), name |-> cmd.name, left |-> cmd.left, cond |-> cmd.cond,
     right |-> cmd.right, stack |-> StackStr(R, fs, rt)]

\* RuntimeStack.__init__, before the first statement is read.
Constructed ==
    /\ records = <<>>
    /\ func_stack = <<>>
    /\ ret = None
    /\ func_returns = [u \in {} |-> None]
    /\ raw_input = <<>>
    /\ ctl = <<>>
    /\ c = Cmd("")
    /\ status = "run"
    /\ err = ""

\* read_input: the convention chosen and whether static typing was chosen.
read_input ==
    /\ main_type \in CallTypeEnum
    /\ main_calltype \in BOOLEAN

\* The core constructed with the configuration chosen: RuntimeStack(type,
\* calltype) with type false for static typing, and execute_program(stack,
\* calltype, ...) with the convention.
Init ==
    /\ read_input
    /\ typing = ~main_calltype
    /\ calltype = main_type
    /\ Constructed
    /\ nuuid = 0

\* str(bool)
PyBool(b) == IF b THEN "True" ELSE "False"

\* main(): RuntimeStack(typing, calltype) is handed the module `typing`, a
\* true value, and the boolean; execute_program(stack, calltype, ...) is
\* handed the boolean too.  The convention chosen goes to parse_input only.
InitMain ==
    /\ read_input
    /\ typing = TRUE
    /\ calltype = PyBool(main_calltype)
    /\ Constructed
    /\ nuuid = 0

\* uuid4() is random: a second run draws other tokens than the first.  The
\* draws of a run are the tokens after its starting point, and two runs start
\* UuidSpan apart, further than the calls of one program reach.
UuidSpan == 100
InitDraw ==
    /\ read_input
    /\ typing = ~main_calltype
    /\ calltype = main_type
    /\ Constructed
    /\ nuuid \in {0, UuidSpan}

\* The next top-level statement of the program is read and parsed.  The
\* program is parsed whole before its first command runs: a statement that
\* fails to parse ends the run with the stack as constructed.
Feed(st) ==
    /\ status = "run" /\ ctl = <<>>
    /\ InputOK(Append(raw_input, st))
    /\ raw_input' = Append(raw_input, st)
    /\ LET p == parse_input(st, nuuid)
       IN  /\ nuuid' = p.u
           /\ IF p.err # ""
              THEN /\ status' = "crash" /\ err' = p.err /\ ctl' = ctl
                   /\ records' = <<>> /\ func_stack' = <<>> /\ ret' = None
                   /\ func_returns' = [u \in {} |-> None]
              ELSE /\ status' = status /\ err' = err /\ ctl' = Norm(<<p.commands>>)
                   /\ UNCHANGED <<records, func_stack, ret, func_returns>>
    /\ UNCHANGED <<main_type, main_calltype, typing, calltype, c>>

\* The effect of one command: what it leaves in the stack, or the exception.
Eff(R, fs, rt, fr, k, e) ==
    [records |-> R, func_stack |-> fs, ret |-> rt, func_returns |-> fr, ctl |-> k, err |-> e]

Commit(x) ==
    /\ c' = Cur
    /\ records' = x.records
    /\ func_stack' = x.func_stack
    /\ ret' = x.ret
    /\ func_returns' = x.func_returns
    /\ IF x.err # ""
       THEN status' = "crash" /\ err' = x.err /\ ctl' = ctl
       ELSE status' = status /\ err' = err /\ ctl' = Norm(x.ctl)
    /\ UNCHANGED <<main_type, main_calltype, typing, calltype, raw_input, nuuid>>

\* new_scope
new_scope ==
    Eff(Append(records, ActivatationRecord(calltype)), func_stack, ret, func_returns, Popped, "")

\* A plausible slip: the function frame's record is popped and its call-stack
\* entry is left behind.
del_scope_record_only(func) ==
    IF records = <<>>
    THEN Eff(records, func_stack, ret, func_returns, Popped, "IndexError")
    ELSE Eff(SubSeq(records, 1, Len(records) - 1), func_stack, ret, func_returns, Popped, "")

\* del_scope(stack, func)
del_scope(func) ==
    LET fs == IF func THEN SubSeq(func_stack, 1, Len(func_stack) - 1) ELSE func_stack
    IN  IF func /\ func_stack = <<>>
        THEN Eff(records, func_stack, ret, func_returns, Popped, "IndexError")
        ELSE IF records = <<>>
        THEN Eff(records, fs, ret, func_returns, Popped, "IndexError")
        ELSE Eff(SubSeq(records, 1, Len(records) - 1), fs, ret, func_returns, Popped, "")

\* declare_variable(stack, name)
declare_variable(name) ==
    LET d == DeclareValue(records, name)
    IN  Eff(d.recs, func_stack, ret, func_returns, Popped, d.err)

AssignDone(st) == Eff(st.recs, func_stack, ret, func_returns, Popped, st.err)
AssignEvaluated(name, ev) ==
    IF ev.err # "" THEN Eff(ev.recs, func_stack, ret, func_returns, Popped, ev.err)
    ELSE AssignDone(RSSetValue(ev.recs, func_stack, name, PyStr(ev.v)))

\* assign_variable(stack, name, value)
assign_variable(name, value) ==
    AssignEvaluated(name, PyEval(translate_vars(value), records, func_stack, func_returns))

\* A plausible slip: the expression evaluated and its value dropped.
ReturnDropped(ev) == Eff(ev.recs, func_stack, ret, func_returns, Popped, ev.err)

ReturnEvaluated(ev) ==
    Eff(ev.recs, func_stack, IF ev.err = "" THEN ev.v ELSE ret, func_returns, Popped, ev.err)

\* A plausible slip: a return leaves the body, the commands after it dropped.
function_return_leaves(value) ==
    [ReturnEvaluated(PyEval(translate_vars(value), records, func_stack, func_returns))
        EXCEPT !.ctl = [ctl EXCEPT ![Len(ctl)] = <<>>]]

\* function_return(stack, value)
function_return(value) ==
    ReturnEvaluated(PyEval(translate_vars(value), records, func_stack, func_returns))

\* RuntimeStack.store_func_returns(uuid)
store_func_returns(uuid) ==
    Eff(records, func_stack, None,
        [u \in DOMAIN func_returns \cup {uuid} |->
            IF u = uuid THEN ret ELSE func_returns[u]], Popped, "")

\* str.isnumeric() of an argument text.
IsNumeric(arg) == Len(arg) = 1 /\ arg[1].t = "num" /\ arg[1].n >= 0

\* A plausible slip: the copy attempted for numeric arguments too.
CopyBackUnchecked(params, args) ==
    IF params = <<>> THEN "" ELSE IF args = <<>> THEN "IndexError" ELSE "TypeError"

\* value_result's loop: the exception it ends with ("" if it completes).
\* func_record.get_value(param) lacks its name argument, so the copy for
\* an argument that is not numeric raises TypeError before set_value runs.
CopyBack(params, args) ==
    LET bad == {i \in 1..Len(params) : i > Len(args) \/ ~IsNumeric(args[i])}
    IN  IF bad = {} THEN ""
        ELSE IF Min(bad) > Len(args) THEN "IndexError" ELSE "TypeError"

ValueResultOf(args, g) ==
    IF g.err # "" THEN Eff(g.recs, func_stack, ret, func_returns, Popped, g.err)
    ELSE IF func_stack = <<>>
    THEN Eff(g.recs, func_stack, ret, func_returns, Popped, "IndexError")
    ELSE IF g.recs = <<>>
    THEN Eff(g.recs, SubSeq(func_stack, 1, Len(func_stack) - 1), ret, func_returns,
             Popped, "IndexError")
    ELSE IF g.v.k # "func"
    THEN Eff(SubSeq(g.recs, 1, Len(g.recs) - 1), SubSeq(func_stack, 1, Len(func_stack) - 1),
             ret, func_returns, Popped, "AttributeError")
    ELSE IF CopyBack(g.v.params, args) # ""
    THEN Eff(SubSeq(g.recs, 1, Len(g.recs) - 1), SubSeq(func_stack, 1, Len(func_stack) - 1),
             ret, func_returns, Popped, CopyBack(g.v.params, args))
    ELSE Eff(g.recs,
             Append(SubSeq(func_stack, 1, Len(func_stack) - 1),
                    FuncEntry(func_stack[Len(func_stack)].rindex, Len(g.recs) - 1,
                              g.v.name, TRUE)),
             ret, func_returns, Popped, "")

\* value_result(stack, name, args)
value_result(name, args) == ValueResultOf(args, RSGetValue(records, func_stack, name))

DeclareFuncSet(st) == Eff(st.recs, func_stack, ret, func_returns, Popped, st.err)
DeclareFuncOf(name, commands, params, d) ==
    IF d.err # "" THEN Eff(records, func_stack, ret, func_returns, Popped, d.err)
    ELSE DeclareFuncSet(RSSetValue(d.recs, func_stack, name,
                                   Function(name, commands, params, Len(d.recs) - 1)))

\* declare_function(stack, name, commands, params)
declare_function(name, commands, params) ==
    DeclareFuncOf(name, commands, params, DeclareValue(records, name))

RECURSIVE ApplyFrom(_, _, _, _, _, _, _, _)
ApplyEvaluated(fs, fr, record, params, arguments, ct, i, ev) ==
    IF ev.err # "" THEN [record |-> record, recs |-> ev.recs, err |-> ev.err]
    ELSE ApplyFrom(ev.recs, fs, fr, DictSet(record, params[i], ev.v),
                   params, arguments, ct, i + 1)

\* apply_func_params' loop from parameter i on.
ApplyFrom(R, fs, fr, record, params, arguments, ct, i) ==
    IF i > Len(params) THEN [record |-> record, recs |-> R, err |-> ""]
    ELSE IF i > Len(arguments) THEN [record |-> record, recs |-> R, err |-> "IndexError"]
    ELSE IF ct \in {"CBNAME", "CBNEED", "CBR"}
    THEN ApplyFrom(R, fs, fr, DictSet(record, params[i], StrV(translate_vars(arguments[i]))),
                   params, arguments, ct, i + 1)
    ELSE ApplyEvaluated(fs, fr, record, params, arguments, ct, i,
                        PyEval(translate_vars(arguments[i]), R, fs, fr))

\* apply_func_params(stack, record, params, arguments, calltype)
apply_func_params(R, fs, fr, record, params, arguments, ct) ==
    ApplyFrom(R, fs, fr, record, params, arguments, ct, 1)

CallBound(fname, func, ap) ==
    IF ap.err # "" THEN Eff(ap.recs, func_stack, ret, func_returns, Popped, ap.err)
    ELSE Eff(Append(ap.recs, ap.record),
             Append(func_stack, FuncEntry(func.rindex, Len(ap.recs), fname, FALSE)),
             ret, func_returns, Append(Popped, func.commands), "")

CallFound(fname, args, g) ==
    IF g.err # "" THEN Eff(g.recs, func_stack, ret, func_returns, Popped, g.err)
    ELSE IF g.v.k # "func"
    THEN Eff(g.recs, func_stack, ret, func_returns, Popped, "AttributeError")
    ELSE CallBound(fname, g.v,
             apply_func_params(g.recs, func_stack, func_returns,
                               ActivatationRecord(calltype), g.v.params, args, calltype))

\* call_function(stack, fname, args, calltype)
call_function(fname, args) == CallFound(fname, args, RSGetValue(records, func_stack, fname))

\* cond_lookup: the Python operator of a condition spelling ("" if absent).
cond_lookup(cond) ==
    CASE cond \in {"=", "=="} -> "=="
      [] cond \in {"\\=", "/=", "!="} -> "!="
      [] cond = ">" -> ">"
      [] cond = "<" -> "<"
      [] cond \in {"=<", "<="} -> "<="
      [] cond \in {">=", "=>"} -> ">="
      [] OTHER -> ""

\* Python's == on values (all Function objects compare equal: a dataclass
\* without fields).
PyEq(a, b) == a.k = b.k /\ (a.k = "int" => a.n = b.n)

Compare(op, a, b) ==
    CASE op = "==" -> [v |-> PyEq(a, b), err |-> ""]
      [] op = "!=" -> [v |-> ~PyEq(a, b), err |-> ""]
      [] a.k # "int" \/ b.k # "int" -> [v |-> FALSE, err |-> "TypeError"]
      [] op = ">" -> [v |-> a.n > b.n, err |-> ""]
      [] op = "<" -> [v |-> a.n < b.n, err |-> ""]
      [] op = "<=" -> [v |-> a.n <= b.n, err |-> ""]
      [] OTHER -> [v |-> a.n >= b.n, err |-> ""]

CondDecided(r, ifcommands, ecommands, boolean) ==
    IF boolean.err # "" THEN Eff(r.recs, func_stack, ret, func_returns, Popped, boolean.err)
    ELSE Eff(Append(r.recs, ActivatationRecord(calltype)), func_stack, ret, func_returns,
             Append(Popped, IF boolean.v THEN ifcommands ELSE ecommands), "")

CondRight(cond, ifcommands, ecommands, l, r) ==
    IF r.err # "" THEN Eff(r.recs, func_stack, ret, func_returns, Popped, r.err)
    ELSE CondDecided(r, ifcommands, ecommands, Compare(cond_lookup(cond), l.v, r.v))

CondLeft(cond, right, ifcommands, ecommands, l) ==
    IF l.err # "" THEN Eff(l.recs, func_stack, ret, func_returns, Popped, l.err)
    ELSE CondRight(cond, ifcommands, ecommands, l,
                   PyEval(translate_vars(right), l.recs, func_stack, func_returns))

\* conditional(stack, left, cond, right, ifcommands, ecommands, calltype)
conditional(left, cond, right, ifcommands, ecommands) ==
    IF cond_lookup(cond) = ""
    THEN Eff(records, func_stack, ret, func_returns, Popped, "KeyError")
    ELSE CondLeft(cond, right, ifcommands, ecommands,
                  PyEval(translate_vars(left), records, func_stack, func_returns))

\* A plausible slip: the copy-back run under every calling convention.
apply_value_result_ungated(name, args) == value_result(name, args)

\* Command.apply's VALUE_RESULT branch: only under CBVR, else nothing.
apply_value_result(name, args) ==
    IF calltype = "CBVR" THEN value_result(name, args)
    ELSE Eff(records, func_stack, ret, func_returns, Popped, "")

(***************************************************************************)
(* Command.apply, one action per command type.                             *)
(***************************************************************************)
ScopeNew == Running("SCOPE_NEW") /\ Commit(new_scope)
ScopeDel == Running("SCOPE_DEL") /\ Commit(del_scope(Cur.func))
DeclareVar == Running("DECLARE_VAR") /\ Commit(declare_variable(Cur.name))
AssignVar == Running("ASSIGN_VAR") /\ Commit(assign_variable(Cur.name, Cur.value))
FuncCall == Running("FUNC_CALL") /\ Commit(call_function(Cur.name, Cur.params))
StoreFuncRet == Running("STORE_FUNC_RET") /\ Commit(store_func_returns(Cur.uuid))
Return == Running("RETURN") /\ Commit(function_return(Cur.value))
ValueResult == Running("VALUE_RESULT") /\ Commit(apply_value_result(Cur.name, Cur.params))
DeclareFunc ==
    Running("DECLARE_FUNC") /\ Commit(declare_function(Cur.name, Cur.commands, Cur.params))
Conditional ==
    /\ Running("CONDITIONAL")
    /\ Commit(conditional(Cur.left, Cur.cond, Cur.right, Cur.ifc, Cur.elsec))

Next ==
    \/ \E st \in Statements : Feed(st)
    \/ ScopeNew
    \/ ScopeDel
    \/ DeclareVar
    \/ AssignVar
    \/ FuncCall
    \/ StoreFuncRet
    \/ Return
    \/ ValueResult
    \/ DeclareFunc
    \/ Conditional

Spec == Init /\ [][Next]_vars

\* A run started by main().
SpecMain == InitMain /\ [][Next]_vars

\* A run with either draw of tokens.
SpecDraw == InitDraw /\ [][Next]_vars

(***************************************************************************)
(* Properties of name resolution (C1..C3).                                 *)
(***************************************************************************)
Names == {"x", "y", "z", "a", "r", "q", "u", "w", "n", "p", "f", "g", "h", "inc", "dbl"}

Top == func_stack[Len(func_stack)]
Lookup(name) == RSGetValue(records, func_stack, name)
InCall == status = "run" /\ func_stack # <<>>

\* The names bound in the frames of the active call's own body.
BodyKeys == UNION {Keys(records[i]) : i \in (Top.sindex + 1)..Len(records)}
\* The names bound in the frames below frame number i (counted from 0).
KeysBelow(i) == UNION {Keys(records[j]) : j \in 1..i}

\* The value the binding of x holds in frame number i, None if it has none.
ValueIn(i, x) ==
    IF x \in Keys(records[i + 1]) THEN EvalIfStr(Stored(records[i + 1], x)).v ELSE None

\* The value of x in the highest of the frames S that gives x a value.
TopOf(T, x) == IF T = {} THEN None ELSE ValueIn(Max(T), x)
TopmostValue(S, x) == TopOf({i \in S : ValueIn(i, x) # None}, x)

\* A read that ended without exception gave the value v.
Gives(rd, v) == rd.err = "" => rd.v = v

\* The positions, in the declaring frame, of the function whose body the
\* call just made is about to run.
CalledAt ==
    {j \in 1..Len(records[Top.rindex + 1].record) :
        /\ records[Top.rindex + 1].record[j].val.k = "func"
        /\ records[Top.rindex + 1].record[j].val.rindex = Top.rindex
        /\ records[Top.rindex + 1].record[j].val.commands = ctl[Len(ctl)]}

\* C1: under static scoping, once a call to a function f has been made, a
\* name bound in f's declaring frame only after the entry for f, in no frame
\* of f's body and in no frame below the declaring frame, resolves to None.
C1_LaterDeclarationUnresolved ==
    (InCall /\ ~typing /\ c.type = "FUNC_CALL" /\ ~Top.wrapped) =>
        \A j \in CalledAt : \A x \in Names :
            (/\ x \in Keys(records[Top.rindex + 1])
             /\ KeyIndex(records[Top.rindex + 1], x) > j
             /\ x \notin BodyKeys
             /\ x \notin KeysBelow(Top.rindex))
            => Lookup(x).v = None

\* The frames, from the declaring frame down, whose binding of x the active
\* call may see: those where x comes before the name the call was made by.
DeclChain(x) ==
    {i \in 0..Top.rindex :
        i < Len(records) /\ Reaches(records[i + 1], x, Top.fname)}

\* C2: under static scoping, while a call is active, a name not bound in the
\* frames of the callee's body resolves to its binding in the highest frame
\* from the declaring frame down to frame 0 that gives it a value, never to
\* a binding of a caller frame lying between the declaring frame and the
\* callee's own frame.
C2_StaticResolvesInDeclaringChain ==
    (InCall /\ ~typing /\ ~Top.wrapped) =>
        \A x \in Names :
            (x \notin BodyKeys /\ Lookup(x).err = "")
            => Lookup(x).v = TopmostValue(DeclChain(x), x)

\* A call is active under static scoping, x is bound before the function in
\* the declaring frame and rebound in a caller frame in between, and the
\* read yields the declaring frame's value.
C2_Witness ==
    /\ InCall /\ ~typing /\ ~Top.wrapped
    /\ Top.sindex > Top.rindex + 1
    /\ "x" \notin BodyKeys
    /\ ValueIn(Top.rindex, "x") = IntV(1)
    /\ ValueIn(Top.sindex - 1, "x") = IntV(3)
    /\ Reaches(records[Top.rindex + 1], "x", Top.fname)
    /\ Lookup("x").v = IntV(1)

Done == status = "run" /\ ctl = <<>>
Front(s) == SubSeq(s, 1, Len(s) - 1)
LastFed == raw_input[Len(raw_input)]

\* C4: under CBNEED, in { int a = 1; int h(int n) { int u = n; a = a + 1;
\* int w = n; return u + w }; int r = h(a) } the first read of n evaluates a
\* and replaces the binding, so the read after the assignment to a returns
\* the first value again: the run completes with r = 1 + 1 and a = 2.
C4_NeedEvaluatesOnce ==
    (calltype = "CBNEED" /\ raw_input = <<StOpen, StA1, FunH, CallHA>>) =>
        /\ status = "run"
        /\ ctl = <<>> => (Lookup("r").v = IntV(2) /\ Lookup("a").v = IntV(2))

\* C5: under CBNAME, in the same program each read of n evaluates a against
\* the stack as it is at that read, so the two reads give 1 and 2: the run
\* completes with r = 1 + 2 and a = 2.
C5_NameEvaluatesEachRead ==
    (calltype = "CBNAME" /\ raw_input = <<StOpen, StA1, FunH, CallHA>>) =>
        /\ status = "run"
        /\ ctl = <<>> => (Lookup("r").v = IntV(3) /\ Lookup("a").v = IntV(2))

\* C6: under CBVR, in either scoping mode, after int inc(int n) { n = n + 1 },
\* int a = 1 and the call inc(a), written as a statement or as an initializer,
\* the run completes and a resolves to 2.
C6_ValueResultCopiedBack ==
    (calltype = "CBVR" /\ raw_input \in {<<StOpen, StA1, FunInc, BareIncA>>,
                                         <<StOpen, StA1, FunInc, CallIncA>>}) =>
        /\ status = "run"
        /\ ctl = <<>> => Lookup("a").v = IntV(2)

\* The value a one-token argument has in the caller's environment.
ArgValue(arg) ==
    CASE arg[1].t = "num" -> IntV(arg[1].n)
      [] arg[1].t = "tok" -> func_returns[arg[1].n]
      [] OTHER -> Lookup(arg[1].s).v

\* C7: under CBV, every step of a call leaves the bindings of the caller's
\* frames as they are: the call adds one frame whose parameters hold the
\* values of the arguments at call time, an assignment to a parameter
\* inside the callee writes no frame below the callee's, the copy-back step
\* does nothing, and the function's scope end removes only the callee frame.
C7_CallByValueKeepsCallerFrames ==
    [][(calltype = "CBV" /\ status = "run" /\ ctl # <<>>) =>
        /\ (Cur.type = "FUNC_CALL" /\ status' = "run") =>
              /\ Front(records') = records
              /\ \A i \in 1..Len(records'[Len(records')].record) :
                    Len(Cur.params[i]) = 1 =>
                        records'[Len(records')].record[i].val = ArgValue(Cur.params[i])
        /\ (/\ Cur.type = "ASSIGN_VAR" /\ func_stack # <<>> /\ status' = "run"
            /\ Top.sindex < Len(records)
            /\ Cur.name \in Keys(records[Top.sindex + 1])) =>
              SubSeq(records', 1, Top.sindex) = SubSeq(records, 1, Top.sindex)
        /\ Cur.type = "VALUE_RESULT" => (status' = "run" /\ records' = records)
        /\ (Cur.type = "SCOPE_DEL" /\ Cur.func /\ status' = "run") =>
              records' = Front(records)]_vars

\* Under CBV the body of inc, called with a, has assigned n = 2 in the
\* callee's frame while a frame of the caller still binds a to 1.
C7_Witness ==
    /\ calltype = "CBV" /\ InCall /\ Top.fname = "inc"
    /\ c.type = "ASSIGN_VAR" /\ c.name = "n"
    /\ ctl # <<>> /\ Len(ctl[Len(ctl)]) >= 2
    /\ ctl[Len(ctl)][2].type = "VALUE_RESULT"
    /\ ctl[Len(ctl)][2].params = <<<<Id("a")>>>>
    /\ ValueIn(Top.sindex, "n") = IntV(2)
    /\ \E i \in 0..(Top.sindex - 1) : ValueIn(i, "a") = IntV(1)

\* C8: the copy-back step of a call whose arguments are all numeric
\* literals attempts no copy and leaves the caller's frames as they are,
\* under every convention; under any convention but CBVR the step changes
\* no frame at all and the run goes on.
C8_NoCopyBackForLiterals ==
    [][(status = "run" /\ ctl # <<>> /\ Cur.type = "VALUE_RESULT") =>
        /\ calltype # "CBVR" =>
              (status' = "run" /\ records' = records /\ func_stack' = func_stack)
        /\ (\A i \in 1..Len(Cur.params) : IsNumeric(Cur.params[i])) =>
              /\ err' # "TypeError"
              /\ status' = "run" => records' = records
              /\ records # <<>> =>
                    SubSeq(records', 1, Len(records) - 1) = Front(records)]_vars

\* Under CBVR the copy-back step of a call with a numeric literal argument
\* has completed.
C8_Witness ==
    /\ calltype = "CBVR" /\ status = "run"
    /\ c.type = "VALUE_RESULT" /\ c.params # <<>>
    /\ \A i \in 1..Len(c.params) : IsNumeric(c.params[i])

\* C9: with int dbl(int n) { return n * 2 }, the statement int r = dbl(5)
\* once completed has bound r to 10 under CBV and under CBNAME alike, and
\* int r = dbl(a) under CBV has bound r to twice the value of a.
C9_ReturnValueBound ==
    (Done /\ raw_input # <<>> /\ c.type = "ASSIGN_VAR" /\ c.name = "r") =>
        /\ (calltype \in {"CBV", "CBNAME"} /\ LastFed = CallDbl5) =>
              Lookup("r").v = IntV(10)
        /\ (calltype = "CBV" /\ LastFed = CallDblA) =>
              (Lookup("a").v.k = "int" /\ Lookup("r").v = IntV(2 * Lookup("a").v.n))

\* Under CBV int r = dbl(5) has completed and r resolves to 10.
C9_Witness ==
    /\ Done /\ calltype = "CBV" /\ raw_input # <<>> /\ LastFed = CallDbl5
    /\ c.type = "ASSIGN_VAR" /\ c.name = "r"
    /\ Lookup("r").v = IntV(10)

\* C10: under CBV, in either scoping mode, the program int x = 3, int y = 4,
\* int z = x + y run as the whole program goes through every statement and
\* ends with z resolving to 7.
C10_WholeProgramSum ==
    (calltype = "CBV"
        /\ raw_input \in {<<StX3>>, <<StX3, StY4>>, <<StX3, StY4, StZ>>}) =>
        /\ status = "run"
        /\ (Len(raw_input) = 3 /\ ctl = <<>>) => Lookup("z").v = IntV(7)

(***************************************************************************)
(* Properties of the run configuration (C11).                              *)
(***************************************************************************)
\* C11: the convention chosen is the value execution uses to bind
\* parameters and gate the copy-back and the tag of every frame, and the
\* stack resolves names statically in a call exactly when static typing was
\* chosen.
C11_ConfigurationInEffect ==
    /\ calltype = main_type
    /\ \A i \in 1..Len(records) : records[i].calltype = main_type
    /\ func_stack # <<>> => (StaticInFunc(func_stack) <=> main_calltype)


(***************************************************************************)
(* The call plan of an expression                                          *)
(***************************************************************************)
\* The lines of the statement read last.
InputLines ==
    IF raw_input = <<>> THEN {}
    ELSE {raw_input[Len(raw_input)][l] : l \in 1..Len(raw_input[Len(raw_input)])}

PlanOf(expr) == collect_func_calls(expr, 0).func_calls
Encloses(a, b) == a.n < b.n /\ b.m < a.m

\* The commands of call j come before the FUNC_CALL of call i.
CmdsBefore(cmds, j, i) ==
    /\ cmds[4 * (j - 1) + 1].type = "FUNC_CALL"
    /\ cmds[4 * (j - 1) + 2].type = "STORE_FUNC_RET"
    /\ cmds[4 * (i - 1) + 1].type = "FUNC_CALL"
    /\ 4 * (j - 1) + 2 < 4 * (i - 1) + 1

PlanOrdered(plan) ==
    \A i, j \in 1..Len(plan) :
        Encloses(plan[i], plan[j]) =>
            j < i /\ CmdsBefore(gen_func_call_commands(plan), j, i)

\* C18: in the plan of every expression of a statement read a call nested in
\* another call's arguments comes before the enclosing call, and so do its
\* FUNC_CALL and STORE_FUNC_RET commands before the enclosing FUNC_CALL.
C18_InnerCallsFirst == \A line \in InputLines : PlanOrdered(PlanOf(line.expr))

\* int r = f(f(f(0))) was read and ran to its end.
C18_Witness ==
    /\ Done /\ raw_input # <<>> /\ LastFed = CallFFF
    /\ Len(PlanOf(LastFed[1].expr)) = 3

NoRawCall(expr) == \A i \in 1..Len(expr) : expr[i].t # "call"

\* The calls of a plan that lie in no other call.
Outermost(plan) == {k \in 1..Len(plan) : ~Overlap(plan, plan[k].m)}

PlanRewritten(value, plan) ==
    /\ \A k \in 1..Len(plan) :
          \A a \in 1..Len(plan[k].scall.args) : NoRawCall(plan[k].scall.args[a])
    /\ NoRawCall(value)
    /\ \A k \in Outermost(plan) : \E i \in 1..Len(value) : value[i] = Tok(plan[k].uuid)

PlanRewrittenOf(cf) == PlanRewritten(cf.value, cf.func_calls)

\* C19: in the plan of every expression of a statement read no call keeps raw
\* call text in its arguments, and the rewritten expression holds the token
\* of each outermost call and no call text.
C19_PlanRewritten ==
    \A line \in InputLines : PlanRewrittenOf(collect_func_calls(line.expr, 0))

\* Every func_ret lookup of a translated expression has a stored token as key.
LookupsStored(e) ==
    \A i \in 1..Len(e) :
        /\ e[i].t = "ret" => e[i].n \in DOMAIN func_returns
        /\ e[i].t # "retcat"

\* C17: when a statement's rewritten expression is about to be evaluated,
\* every call-result lookup it makes uses a token that STORE_FUNC_RET has
\* already stored, for one call, nested calls and sibling calls alike.
C17_LookupsAfterStores ==
    (Running("ASSIGN_VAR") \/ Running("RETURN")) => LookupsStored(translate_vars(Cur.value))


(***************************************************************************)
(* Frames and call-stack entries                                           *)
(***************************************************************************)
\* A step that runs SCOPE_DEL for a function frame.
FuncScopeDel == Running("SCOPE_DEL") /\ Cur.func /\ c' = Cur

\* C13: there are never more call-stack entries than activation records,
\* and SCOPE_DEL for a function frame removes exactly the top call-stack
\* entry and exactly the top activation record.
C13_CallStackWithinRecords ==
    /\ [](Len(func_stack) <= Len(records))
    /\ [][FuncScopeDel =>
            /\ func_stack # <<>> /\ records # <<>>
            /\ func_stack' = Front(func_stack)
            /\ records' = Front(records)]_vars

\* A function frame was just popped inside the base block.
C13_Witness ==
    /\ c.type = "SCOPE_DEL" /\ c.func /\ status = "run"
    /\ Len(records) = 1 /\ func_stack = <<>>

\* How often a statement occurs in the program read so far, and the blocks
\* the program has opened and not closed.
Count(st) == Cardinality({k \in 1..Len(raw_input) : raw_input[k] = st})
OpenBlocks == Count(StOpen) - Count(StClose)

\* C16: once every statement read has run, conditionals included, records
\* holds one frame for each block still open: the frame a CONDITIONAL
\* pushed is gone, whatever the condition and with or without an else.
C16_ConditionalFramePopped ==
    (Done /\ Count(IfElse) + Count(IfOnly) > 0) => Len(records) = OpenBlocks

\* C15: when the SCOPE_DEL of a call runs, the top activation record is the
\* one call_function pushed for that call, and the step leaves records as
\* it was before the call: the frames below that record, in their order.
C15_CallRestoresRecords ==
    [][FuncScopeDel =>
          /\ Len(records) = Top.sindex + 1
          /\ records' = SubSeq(records, 1, Top.sindex)]_vars


(***************************************************************************)
(* Reads and assignments of one name                                       *)
(***************************************************************************)
\* The frames of the search order whose scan reaches name, and the first.
Binding(order, name) ==
    {k \in 1..Len(order) :
        /\ ~order[k].terr /\ order[k].i < Len(records)
        /\ Reaches(records[order[k].i + 1], name, order[k].fname)}
FirstBinding(order, name) == order[Min(Binding(order, name))].i + 1

\* A read answers with the binding of frame f and a write changes it.
SameBinding(f, name, rd, wr) ==
    /\ rd.err = "" /\ rd.v = Stored(records[f], name)
    /\ wr.err = "" /\ wr.ok
    /\ wr.recs = [records EXCEPT ![f] = DictSet(@, name, IntV(9))]

\* C20: between two statements, a read of x and an assignment to x resolve
\* to the binding of x in the first frame of the search order that holds x,
\* also when that binding is still unset and a lower frame holds a set one.
C20_ReadAndWriteSameBinding ==
    (Done /\ func_stack = <<>> /\ Binding(SearchOrder(records, func_stack), "x") # {}) =>
        SameBinding(FirstBinding(SearchOrder(records, func_stack), "x"), "x",
                    RSGetValue(records, func_stack, "x"),
                    RSSetValue(records, func_stack, "x", IntV(9)))


(***************************************************************************)
(* Spellings of a comparison                                               *)
(***************************************************************************)
\* The text of a spelling, and the comparison it stands for.
RECURSIVE Spelled(_)
Spelled(sp) == IF sp = <<>> THEN "" ELSE sp[1] \o Spelled(Tail(sp))
KindOf(sp) == cond_lookup(Spelled(sp))

\* An if statement parses first to a CONDITIONAL with the line's left and
\* right and the comparison of its spelling.
IfAccepted(line, p) ==
    /\ p.err = "" /\ p.commands # <<>>
    /\ p.commands[1].type = "CONDITIONAL"
    /\ p.commands[1].left = line.left /\ p.commands[1].right = line.right
    /\ cond_lookup(p.commands[1].cond) = KindOf(line.cond)

\* The branch a CONDITIONAL step takes is the one the comparison of l and r
\* under kind selects.
BranchTaken(kind, l, r) ==
    (l.err = "" /\ r.err = "" /\ l.v.k = "int" /\ r.v.k = "int") =>
        /\ status' = "run"
        /\ ctl' = Norm(Append(Popped, IF Compare(kind, l.v, r.v).v THEN Cur.ifc ELSE Cur.elsec))

\* C14: an if line with any spelling of cond_lookup parses to a CONDITIONAL
\* of its left, its right and the comparison the spelling stands for, and
\* the step that runs it continues with the then-body exactly when left and
\* right compare true under that comparison, else with the else-body.
C14_EverySpellingAccepted ==
    /\ [](\A k \in 1..Len(raw_input) :
            raw_input[k][1].s = "if" =>
                IfAccepted(raw_input[k][1], parse_input(raw_input[k], 0)))
    /\ [][(Running("CONDITIONAL") /\ c' = Cur /\ LastFed[1].s = "if") =>
            BranchTaken(KindOf(LastFed[1].cond),
                        PyEval(translate_vars(LastFed[1].left), records, func_stack, func_returns),
                        PyEval(translate_vars(LastFed[1].right), records, func_stack, func_returns))]_vars


(***************************************************************************)
(* The trace of two runs                                                   *)
(***************************************************************************)
\* The token the other run draws where this run drew n.
OtherDraw(n) == IF n > UuidSpan THEN n - UuidSpan ELSE n + UuidSpan

\* A text as the other run holds it.
RECURSIVE RedrawExpr(_)
RedrawEl(el) ==
    CASE el.t \in {"tok", "ret"} -> [el EXCEPT !.n = OtherDraw(@)]
      [] el.t = "retcat" -> [el EXCEPT !.args = RedrawExpr(@)]
      [] el.t \in {"call", "pycall"} ->
           [el EXCEPT !.args = [k \in 1..Len(@) |-> RedrawExpr(@[k])]]
      [] OTHER -> el
RedrawExpr(e) == [k \in 1..Len(e) |-> RedrawEl(e[k])]

RedrawVal(v) == IF v.k = "str" THEN StrV(RedrawExpr(v.e)) ELSE v
RedrawRecord(rs) == [k \in 1..Len(rs) |-> [rs[k] EXCEPT !.val = RedrawVal(@)]]

\* A line as the run with the other draw of tokens prints it.
Redrawn(line) ==
    [line EXCEPT
        !.left = RedrawExpr(@), !.right = RedrawExpr(@),
        !.stack.ret = RedrawVal(@),
        !.stack.records = [k \in 1..Len(@) |-> RedrawRecord(@[k])]]

SameInBothRuns(line) == line = Redrawn(line)

\* C12: the line printed before a FUNC_CALL or a CONDITIONAL is the line
\* the run of the same program with the other draw of tokens prints there,
\* under every convention and with deferred argument texts in the stack.
C12_TraceSameInBothRuns ==
    (Running("FUNC_CALL") \/ Running("CONDITIONAL")) =>
        SameInBothRuns(BeforeLine(Cur, records, func_stack, ret))


(***************************************************************************)
(* Assignments in a call and to names not bound                            *)
(***************************************************************************)
\* A step that runs an assignment, in the body of the active call, to a name
\* bound in the frame the call pushed.
ParamAssign ==
    /\ Running("ASSIGN_VAR") /\ c' = Cur /\ status' = "run"
    /\ func_stack # <<>> /\ Len(records) = Top.sindex + 1
    /\ Cur.name \in Keys(records[Len(records)])

\* The value the expression of the assignment about to run evaluates to.
AssignedValue == PyEval(translate_vars(Cur.value), records, func_stack, func_returns).v

\* C21: under CBR an assignment to a parameter inside the callee replaces
\* the binding in the callee's own frame by the value assigned and leaves
\* every frame below it as it is; once int r = set(a), whose body assigns
\* its parameter, has completed, a has the value it was declared with.
C21_ParamAssignStaysLocal ==
    /\ [][(calltype = "CBR" /\ ParamAssign) =>
            /\ SubSeq(records', 1, Top.sindex) = SubSeq(records, 1, Top.sindex)
            /\ Len(records') = Len(records)
            /\ Keys(records'[Len(records)]) = Keys(records[Len(records)])
            /\ Stored(records'[Len(records)], Cur.name) = AssignedValue]_vars
    /\ []((calltype = "CBR" /\ Done /\ raw_input # <<>> /\ LastFed = CallSetA) =>
            \A i \in 0..(Len(records) - 1) :
                "a" \in Keys(records[i + 1]) => ValueIn(i, "a") = IntV(1))

\* Under CBR the body of set, called with a, has assigned 5 to its parameter
\* while the caller's frame still binds a to 1.
C21_Witness ==
    /\ calltype = "CBR" /\ InCall /\ Top.fname = "set"
    /\ raw_input # <<>> /\ LastFed = CallSetA
    /\ c.type = "ASSIGN_VAR" /\ c.name = "n"
    /\ ValueIn(Top.sindex, "n") = IntV(5)
    /\ Top.sindex >= 1 /\ ValueIn(Top.sindex - 1, "a") = IntV(1)

\* A step that runs an assignment to a name that no frame of the search
\* order holds.
UnboundAssign ==
    /\ Running("ASSIGN_VAR") /\ c' = Cur /\ status' = "run"
    /\ Binding(SearchOrder(records, func_stack), Cur.name) = {}

NotWritten(st) == st.err = "" /\ ~st.ok /\ st.recs = records

\* C23: an assignment to a name found by neither phase of the search in
\* force answers that nothing was written and leaves the records, their
\* bindings, the call stack, ret and the call results as they were.
C23_UnboundTargetNoWrite ==
    [][UnboundAssign =>
          /\ NotWritten(RSSetValue(records, func_stack, Cur.name, PyStr(AssignedValue)))
          /\ records' = records
          /\ func_stack' = func_stack
          /\ ret' = ret
          /\ func_returns' = func_returns]_vars

\* Under static scoping the body of two has assigned to a, which its
\* declaring frame binds only after two itself: no frame has changed.
C23_Witness ==
    /\ InCall /\ ~typing /\ Top.fname = "two"
    /\ c.type = "ASSIGN_VAR" /\ c.name = "a"
    /\ Binding(SearchOrder(records, func_stack), "a") = {}
    /\ \E i \in 0..(Len(records) - 1) : ValueIn(i, "a") = IntV(1)

\* A statement with a line no pattern of parse_input fits.
Unmatched(st) == \E l \in 1..Len(st) : st[l].s = "call"

\* C22: once a statement with a line of no recognized shape, such as the
\* bare call inc(a), has been read, the run has ended with a syntax error
\* and the stack as constructed, no command of the program applied; the
\* line is never passed over with no command produced.
C22_UnmatchedLineReported ==
    (\E k \in 1..Len(raw_input) : Unmatched(raw_input[k])) =>
        /\ status = "crash" /\ err # ""
        /\ records = <<>> /\ func_stack = <<>>

(***************************************************************************)
(* Returns and stored call results                                         *)
(***************************************************************************)
\* A step that applies a command of the given type and does not fail.
Applies(type) == Running(type) /\ c' = Cur /\ status' = "run"

\* C24: a RETURN step sets ret to the value of its expression and leaves
\* the commands that follow it in the body to be run next; no step but a
\* RETURN or a STORE_FUNC_RET changes ret, so of several returns of one
\* call the last gives ret.  Once int r = two(0), whose body is return 1,
\* a = 5, return 2, has completed, r is 2, and a is 5 where the body's
\* assignment finds it.
C24_ReturnDoesNotLeave ==
    /\ [][Applies("RETURN") =>
            /\ ret' = AssignedValue
            /\ ctl' = Norm(Popped)]_vars
    /\ [][(status = "run" /\ ctl # <<>> /\ Cur.type \notin {"RETURN", "STORE_FUNC_RET"}) =>
            ret' = ret]_vars
    /\ []((Done /\ raw_input # <<>> /\ LastFed = CallTwo) =>
            /\ Lookup("r").v = IntV(2)
            /\ typing => Lookup("a").v \in {None, IntV(5)})

\* int r = two(0) has completed with a declared before: r is 2 and a is 5.
C24_Witness ==
    /\ Done /\ raw_input # <<>> /\ LastFed = CallTwo
    /\ c.type = "ASSIGN_VAR" /\ c.name = "r"
    /\ Lookup("r").v = IntV(2) /\ Lookup("a").v = IntV(5)

\* A step that stores the result of a call made by one of the given names:
\* in a call plan the STORE_FUNC_RET is followed by the call's VALUE_RESULT.
StoresFor(names) ==
    /\ Applies("STORE_FUNC_RET")
    /\ Len(ctl[Len(ctl)]) >= 2
    /\ ctl[Len(ctl)][2].type = "VALUE_RESULT"
    /\ ctl[Len(ctl)][2].name \in names

\* The functions of the program texts whose body holds no return.
NoReturn == {"set", "inc"}

\* C25: every STORE_FUNC_RET step stores a value under its token and leaves
\* ret empty, and the value stored for a call whose body ran no RETURN is
\* None, whatever a RETURN outside that call has left in ret.
C25_StoredResultIsOwnReturn ==
    /\ [][Applies("STORE_FUNC_RET") =>
            (ret' = None /\ Cur.uuid \in DOMAIN func_returns')]_vars
    /\ [][StoresFor(NoReturn) => func_returns'[Cur.uuid] = None]_vars

(***************************************************************************)
(* The function of the active call under static scoping                    *)
(***************************************************************************)
\* The frame the function of the active call was declared in.
DeclFrame == records[Top.rindex + 1]

\* C26: under static scoping, once a call to a function f has been made,
\* the name of f and of every function declared after f in f's declaring
\* frame resolves to None, unless a frame of f's body or a frame below the
\* declaring frame binds that name.
C26_ActiveFunctionUnresolved ==
    (InCall /\ ~typing /\ c.type = "FUNC_CALL" /\ ~Top.wrapped) =>
        \A j \in CalledAt : \A i \in j..Len(DeclFrame.record) :
            (/\ DeclFrame.record[i].val.k = "func"
             /\ DeclFrame.record[i].name \notin BodyKeys
             /\ DeclFrame.record[i].name \notin KeysBelow(Top.rindex))
            => Lookup(DeclFrame.record[i].name).v = None

(***************************************************************************)
(* Reads of deferred parameters                                            *)
(***************************************************************************)
\* The frame the active call pushed is the top frame.
InCallee == InCall /\ ~Top.wrapped /\ Len(records) = Top.sindex + 1

\* The names the top frame binds to a deferred argument text.
Deferred ==
    {records[Len(records)].record[i].name : i \in
        {k \in 1..Len(records[Len(records)].record) :
            records[Len(records)].record[k].val.k = "str"}}

\* C27: under CBR, CBNEED and CBNAME a read of a deferred parameter in the
\* callee ends with a value and no exception; in int r = dbl(n), where the
\* argument is the caller's variable n and the parameter is n too, the read
\* of n in the callee gives the value of the caller's n.
C27_DeferredReadGivesValue ==
    (InCallee /\ calltype \in {"CBR", "CBNEED", "CBNAME"}) =>
        /\ \A x \in Deferred : Lookup(x).err = ""
        /\ (LastFed = CallDblN /\ Top.fname = "dbl" /\ Top.sindex >= 1
             /\ ValueIn(Top.sindex - 1, "n") = IntV(1)) => Lookup("n").v = IntV(1)

====
